---- MODULE Spec2Model ----
(***************************************************************************)
(* GapAncillary: the two scripts that build the regional avoidance mask.   *)
(*   createAvoidAll_allRegions_2016Dec12.py  (stage 2, specification Spec) *)
(*   ne_roadDensity.py                       (stage 1)                     *)
(* Rasters are functions from the cells of a small common frame to         *)
(* integers; NoData is a sentinel no cell value can take.                  *)
(***************************************************************************)
EXTENDS Integers, Sequences, FiniteSets, TLC

\* stage 2 (createAvoidAll_allRegions): the region loop and its files
VARIABLES regions, idx, pc, nlcd, density, scratch, avoid_mask, printed

\* history of stage 2: the regions whose try block was entered, in order,
\* and the regions whose try block raised
VARIABLES attempts, raised

\* stage 1 (ne_roadDensity): the HUC loops and their files
VARIABLES hucIDs, hidx, at, Dens, intDens, nulls, mosaic, report

vars2 == <<regions, idx, pc, nlcd, density, scratch, avoid_mask, printed, attempts, raised>>

vars1 == <<hucIDs, hidx, at, Dens, intDens, nulls, mosaic, report>>

vars == <<vars2, vars1>>

(***************************************************************************)
(* Bounds of the model.                                                    *)
(***************************************************************************)
Rows == 2
Cols == 8
MaxRegions == 2
MaxUrban == 9
MaxShift == 1
MaxHucs == 2
Half == 5

(***************************************************************************)
(* The frame: cells <<row, col>> of CellSize metres.                       *)
(***************************************************************************)
Cells == (1..Rows) \X (1..Cols)

NoData == -9999

Const(k) == [c \in Cells |-> k]

\* scan position of a cell, rows first
ScanPos(c) == (c[1] - 1) * Cols + c[2]

(***************************************************************************)
(* Map algebra (arcpy.sa), cell by cell, NoData propagating.               *)
(***************************************************************************)
GreaterThan(r, k) == [c \in Cells |-> IF r[c] = NoData THEN NoData ELSE IF r[c] > k THEN 1 ELSE 0]

LessThan(r, k) == [c \in Cells |-> IF r[c] = NoData THEN NoData ELSE IF r[c] < k THEN 1 ELSE 0]

GreaterThanEqual(r, k) == [c \in Cells |-> IF r[c] = NoData THEN NoData ELSE IF r[c] >= k THEN 1 ELSE 0]

BooleanAnd(a, b) == [c \in Cells |-> IF a[c] = NoData \/ b[c] = NoData THEN NoData ELSE IF a[c] # 0 /\ b[c] # 0 THEN 1 ELSE 0]

IsNull(r) == [c \in Cells |-> IF r[c] = NoData THEN 1 ELSE 0]

\* Con(condition, true raster, false raster); a missing false branch is Const(NoData)
Con(cond, t, f) == [c \in Cells |-> IF cond[c] = NoData THEN NoData ELSE IF cond[c] # 0 THEN t[c] ELSE f[c]]

Plus(a, b) == [c \in Cells |-> IF a[c] = NoData \/ b[c] = NoData THEN NoData ELSE a[c] + b[c]]

(***************************************************************************)
(* RegionGroup(in, "EIGHT", "WITHIN", "ADD_LINK", excluded): cells holding *)
(* the excluded value get 0; every other data cell gets the number of its  *)
(* 8-connected zone of equal value, zones numbered in scan order.          *)
(***************************************************************************)
Abs(x) == IF x < 0 THEN -x ELSE x

Eight(p, q) == p # q /\ Abs(p[1] - q[1]) <= 1 /\ Abs(p[2] - q[2]) <= 1

RECURSIVE Flood(_, _)
Flood(S, r) ==
  LET v == r[CHOOSE p \in S : TRUE]
      N == S \cup {q \in Cells : r[q] = v /\ \E p \in S : Eight(p, q)}
  IN  IF N = S THEN S ELSE Flood(N, r)

MinPos(S) == CHOOSE n \in {ScanPos(p) : p \in S} : \A p \in S : n <= ScanPos(p)

RegionGroup(r, excluded) ==
  LET grouped == {c \in Cells : r[c] # NoData /\ r[c] # excluded}
      zone == [c \in grouped |-> Flood({c}, r)]
      firsts == {MinPos(zone[c]) : c \in grouped}
  IN  [c \in Cells |->
         IF r[c] = NoData THEN NoData
         ELSE IF r[c] = excluded THEN 0
         ELSE Cardinality({n \in firsts : n <= MinPos(zone[c])})]

(***************************************************************************)
(* ZonalStatistics(zones, "VALUE", values, "SUM", "DATA"): every cell of a *)
(* zone gets the sum of the value raster over the zone's data cells.       *)
(***************************************************************************)
RECURSIVE SumOver(_, _)
SumOver(S, r) ==
  IF S = {} THEN 0
  ELSE LET p == CHOOSE q \in S : TRUE IN r[p] + SumOver(S \ {p}, r)

ZonalStatistics(zones, values) ==
  [c \in Cells |->
     IF zones[c] = NoData THEN NoData
     ELSE LET inZone == {q \in Cells : zones[q] = zones[c] /\ values[q] # NoData}
          IN  IF inZone = {} THEN NoData ELSE SumOver(inZone, values)]

(***************************************************************************)
(* EucDistance(source, maximum distance, cell size): distance from each    *)
(* cell to the closest data cell of the source; NoData where it exceeds    *)
(* the maximum.  The distance is kept squared (square metres), which       *)
(* orders cells as the distance does.                                      *)
(***************************************************************************)
SqDist(p, q, cellSize) == cellSize * cellSize * ((p[1] - q[1]) * (p[1] - q[1]) + (p[2] - q[2]) * (p[2] - q[2]))

EucDistance(src, maxDist, cellSize) ==
  LET sources == {q \in Cells : src[q] # NoData}
  IN  [c \in Cells |->
         LET near == {SqDist(c, q, cellSize) : q \in sources}
         IN  IF near = {} THEN NoData
             ELSE LET d == CHOOSE x \in near : \A y \in near : x <= y
                  IN  IF d > maxDist * maxDist THEN NoData ELSE d]

(***************************************************************************)
(* The rasters of one region's pipeline, each computed from the inputs and *)
(* the files saved before it (f is the region's scratch directory).        *)
(***************************************************************************)
\* a seed raster buffered: EucDistance up to maxRadius on 30 m cells, then
\* Con(IsNull(distance), 0, 1)
bufferWithin(src, maxRadius) == Con(IsNull(EucDistance(src, maxRadius, 30)), Const(0), Const(1))

tmp1_urb01(lc) == Con(BooleanAnd(GreaterThan(lc, 21), LessThan(lc, 25)), Const(1), Const(0))

tmp1_urb02(f) == RegionGroup(f["tmp1_urb01"], 0)

tmp1_urb03(f) == ZonalStatistics(f["tmp1_urb02"], f["tmp1_urb01"])

\* variant: the count test admits groups of exactly 5 cells
tmp1_urb04_atLeast5(f) == Con(GreaterThanEqual(f["tmp1_urb03"], 5), Const(1), Const(NoData))

tmp1_urb04(f) == Con(GreaterThan(f["tmp1_urb03"], 5), Const(1), Const(NoData))

tmp1_urb05(f) == EucDistance(f["tmp1_urb04"], 120, 30)

\* variant: the two values of the Con are exchanged
tmp1_urb06_swapped(f) == Con(IsNull(f["tmp1_urb05"]), Const(1), Const(0))

tmp1_urb06(f) == Con(IsNull(f["tmp1_urb05"]), Const(0), Const(1))

tmp2_urb01(lc) == Con(BooleanAnd(GreaterThan(lc, 22), LessThan(lc, 25)), Const(1), Const(0))

tmp2_urb02(f) == RegionGroup(f["tmp2_urb01"], 0)

tmp2_urb03(f) == ZonalStatistics(f["tmp2_urb02"], f["tmp2_urb01"])

tmp2_urb04(f) == Con(GreaterThan(f["tmp2_urb03"], 5), Const(1), Const(NoData))

tmp2_urb05(f) == EucDistance(f["tmp2_urb04"], 90, 30)

tmp2_urb06(f) == Con(IsNull(f["tmp2_urb05"]), Const(0), Const(1))

\* variant: the low density class tests the high threshold
tmp1_rdd01_high(dens) == Con(GreaterThanEqual(dens, 130), Const(1), Const(0))

tmp1_rdd01(dens) == Con(GreaterThanEqual(dens, 25), Const(1), Const(0))

tmp2_rdd01(dens) == Con(GreaterThanEqual(dens, 65), Const(1), Const(0))

tmp3_rdd01(dens) == Con(GreaterThanEqual(dens, 130), Const(1), Const(0))

tmp1_avd01(f) == Plus(f["tmp1_urb06"], f["tmp1_rdd01"])

tmp1_avd02(f) == Con(GreaterThan(f["tmp1_avd01"], 0), Const(1), Const(0))

tmp2_avd01(f) == Plus(f["tmp2_urb06"], f["tmp2_rdd01"])

tmp2_avd02(f) == Con(GreaterThan(f["tmp2_avd01"], 0), Const(1), Const(0))

\* variant: the high criterion adds the 120 m buffer
tmp3_avd01_lowBuffer(f) == Plus(f["tmp1_urb06"], f["tmp3_rdd01"])

tmp3_avd01(f) == Plus(f["tmp2_urb06"], f["tmp3_rdd01"])

tmp3_avd02(f) == Con(GreaterThan(f["tmp3_avd01"], 0), Const(1), Const(0))

\* variant: the first term is the sum tmp1_avd01, not its reclass tmp1_avd02
avdMask_rawSum(f) == Plus(Plus(f["tmp1_avd01"], f["tmp2_avd02"]), f["tmp3_avd02"])

avdMask(f) == Plus(Plus(f["tmp1_avd02"], f["tmp2_avd02"]), f["tmp3_avd02"])

\* the temporaries in the order the try block computes and saves them
Stages ==
  << "tmp1_urb01", "tmp1_urb02", "tmp1_urb03", "tmp1_urb04", "tmp1_urb05", "tmp1_urb06",
     "tmp2_urb01", "tmp2_urb02", "tmp2_urb03", "tmp2_urb04", "tmp2_urb05", "tmp2_urb06",
     "tmp1_rdd01", "tmp2_rdd01", "tmp3_rdd01",
     "tmp1_avd01", "tmp1_avd02", "tmp2_avd01", "tmp2_avd02", "tmp3_avd01", "tmp3_avd02" >>

StageNames == {Stages[k] : k \in 1..Len(Stages)}

StageIndex(name) == CHOOSE k \in 1..Len(Stages) : Stages[k] = name

\* the statement after a temporary's save
After(name) == IF StageIndex(name) = Len(Stages) THEN "avdMask" ELSE Stages[StageIndex(name) + 1]

StageResult(name, lc, dens, f) ==
  CASE name = "tmp1_urb01" -> tmp1_urb01(lc)
    [] name = "tmp1_urb02" -> tmp1_urb02(f)
    [] name = "tmp1_urb03" -> tmp1_urb03(f)
    [] name = "tmp1_urb04" -> tmp1_urb04(f)
    [] name = "tmp1_urb05" -> tmp1_urb05(f)
    [] name = "tmp1_urb06" -> tmp1_urb06(f)
    [] name = "tmp2_urb01" -> tmp2_urb01(lc)
    [] name = "tmp2_urb02" -> tmp2_urb02(f)
    [] name = "tmp2_urb03" -> tmp2_urb03(f)
    [] name = "tmp2_urb04" -> tmp2_urb04(f)
    [] name = "tmp2_urb05" -> tmp2_urb05(f)
    [] name = "tmp2_urb06" -> tmp2_urb06(f)
    [] name = "tmp1_rdd01" -> tmp1_rdd01(dens)
    [] name = "tmp2_rdd01" -> tmp2_rdd01(dens)
    [] name = "tmp3_rdd01" -> tmp3_rdd01(dens)
    [] name = "tmp1_avd01" -> tmp1_avd01(f)
    [] name = "tmp1_avd02" -> tmp1_avd02(f)
    [] name = "tmp2_avd01" -> tmp2_avd01(f)
    [] name = "tmp2_avd02" -> tmp2_avd02(f)
    [] name = "tmp3_avd01" -> tmp3_avd01(f)
    [] name = "tmp3_avd02" -> tmp3_avd02(f)

(***************************************************************************)
(* Inputs.  The region list is empty or a prefix of the six regions;       *)
(* each region's extent shows a window of the land cover holding a blob of *)
(* developed cells (filled column by column, with a run of a second class  *)
(* inside it) on a background of open water, and a road density raster     *)
(* that cycles through the values around the three thresholds.             *)
(***************************************************************************)
AllRegions == << "gp", "ne", "nw", "se", "sw", "um" >>

ColPos(c) == (c[2] - 1) * Rows + c[1]

Palettes == { <<23, 22>>, <<24, 21>>, <<22, 31>>, <<23, NoData>> }

\* lengths of the run of the second class
Runs == {0, 1, 2}

NlcdGrid(n, j, len, pal) ==
  [c \in Cells |->
     IF ColPos(c) > n THEN 11
     ELSE IF ColPos(c) > j /\ ColPos(c) <= j + len THEN pal[2]
     ELSE pal[1]]

DensityValues == << 0, 24, 25, 30, 64, 65, 129, 130 >>

DensityGrid(shift) == [c \in Cells |-> DensityValues[((ScanPos(c) + shift) % Len(DensityValues)) + 1]]

Min(a, b) == IF a < b THEN a ELSE b

\* the window of region number r in the scenario <<n, j, len, pal, shift>>
RegionNlcd(r, n, j, len, pal) ==
  LET nr == (n + r - 1) % (MaxUrban + 1)
      jr == Min(j, nr)
  IN  NlcdGrid(nr, jr, Min(len, nr - jr), pal)

RegionDensity(r, shift) == DensityGrid(shift + 3 * (r - 1))

NoFiles == << >>

\* the road density script is not running
Idle1 ==
  /\ hucIDs = << >>
  /\ hidx = 0
  /\ at = "idle"
  /\ Dens = NoFiles
  /\ intDens = NoFiles
  /\ nulls = << >>
  /\ mosaic = NoFiles
  /\ report = << >>

Init ==
  /\ \E k \in {0, MaxRegions} : regions = SubSeq(AllRegions, 1, k)
  /\ \E n \in 0..MaxUrban, len \in Runs, pal \in Palettes :
       \E j \in 0..n :
         /\ j + len <= n
         /\ len = 0 => j = 0
         /\ nlcd = [r \in 1..Len(regions) |-> RegionNlcd(r, n, j, len, pal)]
         /\ density = [r \in 1..Len(regions) |-> RegionDensity(r, n + j)]
  /\ idx = 0
  /\ pc = "for"
  /\ scratch = NoFiles
  /\ avoid_mask = NoFiles
  /\ printed = << >>
  /\ attempts = << >>
  /\ raised = << >>
  /\ Idle1

(***************************************************************************)
(* The region loop.                                                        *)
(***************************************************************************)
region == regions[idx]

\* for region in regions: the next region enters its try block
ForNext ==
  /\ pc = "for"
  /\ idx < Len(regions)
  /\ idx' = idx + 1
  /\ attempts' = Append(attempts, regions[idx + 1])
  /\ pc' = "setup"
  /\ UNCHANGED <<regions, nlcd, density, scratch, avoid_mask, printed, raised>>
  /\ UNCHANGED vars1

\* for region in regions: the list is exhausted
ForDone ==
  /\ pc = "for"
  /\ idx >= Len(regions)
  /\ pc' = "done"
  /\ UNCHANGED <<regions, idx, nlcd, density, scratch, avoid_mask, printed, attempts, raised>>
  /\ UNCHANGED vars1

\* scratch, extent, mask, snap raster, input paths and workspace of the region
Setup ==
  /\ pc = "setup"
  /\ scratch' = NoFiles
  /\ pc' = Stages[1]
  /\ UNCHANGED <<regions, idx, nlcd, density, avoid_mask, printed, attempts, raised>>
  /\ UNCHANGED vars1

\* one temporary raster is computed and saved in the region's scratch directory
Stage ==
  /\ pc \in StageNames
  /\ scratch' = (pc :> StageResult(pc, nlcd[idx], density[idx], scratch)) @@ scratch
  /\ pc' = After(pc)
  /\ UNCHANGED <<regions, idx, nlcd, density, avoid_mask, printed, attempts, raised>>
  /\ UNCHANGED vars1

\* the three criteria are summed and saved as avoid_mask_<region>
SaveAvdMask ==
  /\ pc = "avdMask"
  /\ avoid_mask' = (region :> avdMask(scratch)) @@ avoid_mask
  /\ pc' = "for"
  /\ UNCHANGED <<regions, idx, nlcd, density, scratch, printed, attempts, raised>>
  /\ UNCHANGED vars1

\* variant: the handler ends the loop
Fails_stops ==
  /\ pc \in StageNames \cup {"setup", "avdMask"}
  /\ raised' = Append(raised, region)
  /\ printed' = Append(printed, <<region, " failed.">>)
  /\ pc' = "done"
  /\ UNCHANGED <<regions, idx, nlcd, density, scratch, avoid_mask, attempts>>
  /\ UNCHANGED vars1

\* variant: the handler saves a mask for the failed region
Fails_savesMask ==
  /\ pc \in StageNames \cup {"setup", "avdMask"}
  /\ raised' = Append(raised, region)
  /\ printed' = Append(printed, <<region, " failed.">>)
  /\ avoid_mask' = (region :> Const(0)) @@ avoid_mask
  /\ pc' = "for"
  /\ UNCHANGED <<regions, idx, nlcd, density, scratch, attempts>>
  /\ UNCHANGED vars1

\* any statement of the try block raises: control passes to the except
\* clause, which prints region + " failed.", and the loop goes on
Fails ==
  /\ pc \in StageNames \cup {"setup", "avdMask"}
  /\ raised' = Append(raised, region)
  /\ printed' = Append(printed, <<region, " failed.">>)
  /\ pc' = "for"
  /\ UNCHANGED <<regions, idx, nlcd, density, scratch, avoid_mask, attempts>>
  /\ UNCHANGED vars1

Next == ForNext \/ ForDone \/ Setup \/ Stage \/ SaveAvdMask \/ Fails

Spec == Init /\ [][Next]_vars

(***************************************************************************)
(* Stage 1, ne_roadDensity.py.  A raw line density is a number of          *)
(* Scale-ths (Half of them make the .5 the script adds); Int() truncates   *)
(* towards zero to whole units.                                            *)
(***************************************************************************)
Scale == 2 * Half

\* variant: nothing is added before Int()
PlusHalf_none(r) == r

\* Raster(...) + .5
PlusHalf(r) == [c \in Cells |-> IF r[c] = NoData THEN NoData ELSE r[c] + Half]

\* Int(...): the fraction is dropped, towards zero
IntTrunc(r) ==
  [c \in Cells |->
     IF r[c] = NoData THEN NoData
     ELSE IF r[c] >= 0 THEN r[c] \div Scale ELSE -((-r[c]) \div Scale)]

\* null = Con(IsNull(Int(Raster("dens_" + huc) + .5)), 0, Int(Raster("dens_" + huc) + .5))
null(dens) == Con(IsNull(IntTrunc(PlusHalf(dens))), Const(0), IntTrunc(PlusHalf(dens)))

\* variant: the later raster wins wherever it has data
CellMax_last(a, b) == [c \in Cells |-> IF b[c] = NoData THEN a[c] ELSE b[c]]

\* the larger of two cells, a NoData cell being ignored ("DATA")
CellMax(a, b) ==
  [c \in Cells |->
     IF a[c] = NoData THEN b[c]
     ELSE IF b[c] = NoData THEN a[c]
     ELSE IF a[c] >= b[c] THEN a[c] ELSE b[c]]

\* cellstatistics(rasters, "MAXIMUM") over a non-empty list
RECURSIVE CellStatistics(_)
CellStatistics(rasters) ==
  IF Len(rasters) = 1 THEN rasters[1]
  ELSE CellMax(CellStatistics(SubSeq(rasters, 1, Len(rasters) - 1)), rasters[Len(rasters)])

(***************************************************************************)
(* Inputs of stage 1: the HUC ids are a prefix of AllHucs; the line        *)
(* density of HUC number h covers the left columns (odd h) or the right    *)
(* columns (even h) of the frame, NoData elsewhere, with values around the *)
(* rounding boundary.                                                      *)
(***************************************************************************)
AllHucs == << "020403", "050100", "020401", "020402" >>

RawValues ==
  << 0, Half - 1, Half, Scale - 1, 24 * Scale + Half - 1, 24 * Scale + Half,
     64 * Scale + Half, 129 * Scale + Half + 1, 215 * Scale + Half - 1 >>

Footprint(h, ov) ==
  IF h % 2 = 1 THEN {c \in Cells : c[2] <= (Cols \div 2) + ov}
  ELSE {c \in Cells : c[2] > Cols \div 2}

RawGrid(h, ov, shift) ==
  [c \in Cells |->
     IF c \in Footprint(h, ov)
     THEN RawValues[((ScanPos(c) * h + shift) % Len(RawValues)) + 1]
     ELSE NoData]

\* what earlier runs may have left in scratch and in intDens
StaleDens == [h \in {hucIDs[k] : k \in 1..Len(hucIDs)} |-> RawGrid(3, 1, 2)]

StaleIntDens ==
  { NoFiles,
    (<<"null_", "020200">> :> null(RawGrid(3, 0, 3))),
    (<<"info", "">> :> Const(0)) }

\* the createAvoidAll script is not running
Idle2 ==
  /\ regions = << >>
  /\ idx = 0
  /\ pc = "idle"
  /\ nlcd = << >>
  /\ density = << >>
  /\ scratch = NoFiles
  /\ avoid_mask = NoFiles
  /\ printed = << >>
  /\ attempts = << >>
  /\ raised = << >>

Init1 ==
  /\ \E k \in 0..MaxHucs : hucIDs = SubSeq(AllHucs, 1, k)
  /\ hidx = 0
  /\ at = "for_huc"
  /\ Dens \in {NoFiles, StaleDens}
  /\ intDens \in StaleIntDens
  /\ nulls = << >>
  /\ mosaic = NoFiles
  /\ report = << >>
  /\ Idle2

huc == hucIDs[hidx]

\* for huc in hucIDs (line 126): the next HUC enters its try block
HucNext ==
  /\ at = "for_huc"
  /\ hidx < Len(hucIDs)
  /\ hidx' = hidx + 1
  /\ at' = "try"
  /\ UNCHANGED <<hucIDs, Dens, intDens, nulls, mosaic, report>>
  /\ UNCHANGED vars2

\* the roads of the HUC are selected, dissolved and their line density saved
LineDensity ==
  /\ at = "try"
  /\ \E ov \in 0..1, shift \in 0..MaxShift :
       Dens' = (huc :> RawGrid(hidx, ov, shift)) @@ Dens
  /\ at' = "for_huc"
  /\ UNCHANGED <<hucIDs, hidx, intDens, nulls, mosaic, report>>
  /\ UNCHANGED vars2

\* a statement of the try block raises before the density is saved
HucFails ==
  /\ at = "try"
  /\ at' = "except"
  /\ UNCHANGED <<hucIDs, hidx, Dens, intDens, nulls, mosaic, report>>
  /\ UNCHANGED vars2

\* except: print huc, " failed."
HucExcept ==
  /\ at = "except"
  /\ report' = Append(report, <<huc, " failed.">>)
  /\ at' = "for_huc"
  /\ UNCHANGED <<hucIDs, hidx, Dens, intDens, nulls, mosaic>>
  /\ UNCHANGED vars2

\* the region polygon is rasterised; workspace, mask and extent are set
FeatureToRaster ==
  /\ at = "for_huc"
  /\ hidx >= Len(hucIDs)
  /\ hidx' = 0
  /\ at' = "for_round"
  /\ UNCHANGED <<hucIDs, Dens, intDens, nulls, mosaic, report>>
  /\ UNCHANGED vars2

\* for huc in hucIDs (line 181): the HUC's density is rounded, zero filled and saved
RoundHuc ==
  /\ at = "for_round"
  /\ hidx < Len(hucIDs)
  /\ hucIDs[hidx + 1] \in DOMAIN Dens
  /\ hidx' = hidx + 1
  /\ intDens' = (<<"null_", hucIDs[hidx + 1]>> :> null(Dens[hucIDs[hidx + 1]])) @@ intDens
  /\ UNCHANGED <<hucIDs, at, Dens, nulls, mosaic, report>>
  /\ UNCHANGED vars2

\* Raster("dens_" + huc) of a raster that does not exist raises outside any try
RoundMissing ==
  /\ at = "for_round"
  /\ hidx < Len(hucIDs)
  /\ hucIDs[hidx + 1] \notin DOMAIN Dens
  /\ hidx' = hidx + 1
  /\ at' = "crashed"
  /\ UNCHANGED <<hucIDs, Dens, intDens, nulls, mosaic, report>>
  /\ UNCHANGED vars2

IsPermutation(seq, S) == Len(seq) = Cardinality(S) /\ {seq[k] : k \in 1..Len(seq)} = S

\* for raster in arcpy.ListDatasets(): the names starting with "null_", in the order listed
ListDatasets ==
  /\ at = "for_round"
  /\ hidx >= Len(hucIDs)
  /\ LET found == {name \in DOMAIN intDens : name[1] = "null_"}
     IN  \E order \in [1..Cardinality(found) -> found] :
           /\ IsPermutation(order, found)
           /\ nulls' = order
  /\ at' = "cellstatistics"
  /\ UNCHANGED <<hucIDs, hidx, Dens, intDens, mosaic, report>>
  /\ UNCHANGED vars2

\* cellstatistics(nulls, ne_rddens, "MAXIMUM")
Mosaic ==
  /\ at = "cellstatistics"
  /\ nulls # << >>
  /\ mosaic' = ("ne_rddens" :> CellStatistics([k \in 1..Len(nulls) |-> intDens[nulls[k]]])) @@ mosaic
  /\ at' = "done"
  /\ UNCHANGED <<hucIDs, hidx, Dens, intDens, nulls, report>>
  /\ UNCHANGED vars2

\* cellstatistics of an empty list of rasters raises
MosaicEmpty ==
  /\ at = "cellstatistics"
  /\ nulls = << >>
  /\ at' = "crashed"
  /\ UNCHANGED <<hucIDs, hidx, Dens, intDens, nulls, mosaic, report>>
  /\ UNCHANGED vars2

Next1 ==
  \/ HucNext \/ LineDensity \/ HucFails \/ HucExcept \/ FeatureToRaster
  \/ RoundHuc \/ RoundMissing \/ ListDatasets \/ Mosaic \/ MosaicEmpty

SpecDensity == Init1 /\ [][Next1]_vars

(***************************************************************************)
(* Properties of stage 2.                                                  *)
(***************************************************************************)
\* the current region's try block ran to its end: every temporary is in
\* scratch and avoid_mask_<region> has been saved
Finished == pc = "for" /\ idx >= 1 /\ region \in DOMAIN avoid_mask

\* the temporary has just been saved
Saved(name) == pc \in StageNames \cup {"avdMask"} /\ pc = After(name)

\* the cells of T joined to a cell of S by a path of 8-neighbours in T
RECURSIVE Reach(_, _)
Reach(S, T) ==
  LET N == S \cup {q \in T : \E p \in S : Eight(p, q)}
  IN  IF N = S THEN S ELSE Reach(N, T)

\* the 8-connected group of cell c within T
GroupOf(c, T) == Reach({c}, T)

\* the cells of T in 8-connected groups of more than k cells
InGroupsOver(T, k) == {c \in T : Cardinality(GroupOf(c, T)) > k}

\* the cells within the given number of metres of a cell of S, cells being 30 m wide
WithinMetres(S, metres) ==
  IF Cardinality(S) = 0 THEN {}
  ELSE {c \in Cells : \E q \in S :
          900 * ((c[1] - q[1]) * (c[1] - q[1]) + (c[2] - q[2]) * (c[2] - q[2])) <= metres * metres}

Ones(r) == {c \in Cells : r[c] = 1}

Data(r) == {c \in Cells : r[c] # NoData}

CritNames == {"tmp1_avd02", "tmp2_avd02", "tmp3_avd02"}

\* C1: when a region's pipeline has run to its end, the saved avoidance score
\* of every cell is one of 0, 1, 2, 3 and is the number of the three criterion
\* rasters (tmp1_avd02, tmp2_avd02, tmp3_avd02) that are 1 at the cell.
C1_ScoreCountsCriteria ==
  Finished =>
    \A c \in Cells :
      /\ avoid_mask[region][c] \in {0, 1, 2, 3}
      /\ avoid_mask[region][c] = Cardinality({k \in CritNames : scratch[k][c] = 1})

\* a finished region with cells of score 0, 1, 2 and 3
C1_Witness ==
  /\ Finished
  /\ \A v \in {0, 1, 2, 3} : \E c \in Cells : avoid_mask[region][c] = v

\* a raster, evaluated cell by cell once
Stored(r) == IF r = Const(NoData) THEN Const(NoData) ELSE r

\* the group-size steps (region group, zonal sum, count test) on a mask
sizeFilter1(mask) ==
  LET f1 == ("tmp1_urb01" :> mask)
      f2 == ("tmp1_urb02" :> Stored(tmp1_urb02(f1))) @@ f1
      f3 == ("tmp1_urb03" :> Stored(tmp1_urb03(f2))) @@ f2
  IN  tmp1_urb04(f3)

sizeFilter2(mask) ==
  LET f1 == ("tmp2_urb01" :> mask)
      f2 == ("tmp2_urb02" :> Stored(tmp2_urb02(f1))) @@ f1
      f3 == ("tmp2_urb03" :> Stored(tmp2_urb03(f2))) @@ f2
  IN  tmp2_urb04(f3)

\* a filtered raster (1 or NoData) as a 1/0 mask
AsMask(r) == [c \in Cells |-> IF r[c] = 1 THEN 1 ELSE 0]

\* C2: the group-size filter keeps exactly the cells of the mask whose
\* 8-connected group has more than 5 cells, and filtering its own output
\* again changes nothing (both urban masks).
C2_SizeFilterExact ==
  /\ Saved("tmp1_urb04") =>
       /\ Ones(scratch["tmp1_urb04"]) = InGroupsOver(Ones(scratch["tmp1_urb01"]), 5)
       /\ Data(scratch["tmp1_urb04"]) = Ones(scratch["tmp1_urb04"])
       /\ sizeFilter1(scratch["tmp1_urb04"]) = scratch["tmp1_urb04"]
       /\ sizeFilter1(AsMask(scratch["tmp1_urb04"])) = scratch["tmp1_urb04"]
  /\ Saved("tmp2_urb04") =>
       /\ Ones(scratch["tmp2_urb04"]) = InGroupsOver(Ones(scratch["tmp2_urb01"]), 5)
       /\ Data(scratch["tmp2_urb04"]) = Ones(scratch["tmp2_urb04"])
       /\ sizeFilter2(scratch["tmp2_urb04"]) = scratch["tmp2_urb04"]
       /\ sizeFilter2(AsMask(scratch["tmp2_urb04"])) = scratch["tmp2_urb04"]

\* a mask holding a group that is kept and a group that is dropped
C2_Witness ==
  /\ Saved("tmp1_urb04")
  /\ Ones(scratch["tmp1_urb04"]) # {}
  /\ Ones(scratch["tmp1_urb04"]) # Ones(scratch["tmp1_urb01"])

Developed(lc, classes) == {c \in Cells : lc[c] \in classes}

\* the cells of groups of k cells or more
InGroupsOfAtLeast(T, k) == {c \in T : Cardinality(GroupOf(c, T)) >= k}

\* C3: (header comment) groups of 5 cells or more are the ones buffered: a
\* cell of a group of 5 or more developed cells lies in the urban buffer.
C3_GroupsOfFiveBuffered ==
  /\ Saved("tmp1_urb06") =>
       InGroupsOfAtLeast(Developed(nlcd[idx], {22, 23, 24}), 5) \subseteq Ones(scratch["tmp1_urb06"])
  /\ Saved("tmp2_urb06") =>
       InGroupsOfAtLeast(Developed(nlcd[idx], {23, 24}), 5) \subseteq Ones(scratch["tmp2_urb06"])

UrbanBufferLow(lc) == WithinMetres(InGroupsOver(Developed(lc, {22, 23, 24}), 5), 120)

UrbanBufferHighMed(lc) == WithinMetres(InGroupsOver(Developed(lc, {23, 24}), 5), 90)

AtLeast(dens, k) == {c \in Cells : dens[c] >= k}

ZeroOne(r) == \A c \in Cells : r[c] \in {0, 1}

C10_CriteriaNested ==
  /\ Saved("tmp2_urb04") =>
       Data(scratch["tmp2_urb04"]) \subseteq Data(scratch["tmp1_urb04"])
  /\ Finished =>
       \A c \in Cells :
         /\ scratch["tmp3_avd02"][c] = 1 => scratch["tmp2_avd02"][c] = 1
         /\ scratch["tmp2_avd02"][c] = 1 => scratch["tmp1_avd02"][c] = 1
         /\ avoid_mask[region][c] = 3 <=> scratch["tmp3_avd02"][c] = 1
         /\ avoid_mask[region][c] >= 2 <=> scratch["tmp2_avd02"][c] = 1
         /\ avoid_mask[region][c] >= 1 <=> scratch["tmp1_avd02"][c] = 1

\* a finished region where the three criteria differ from one another and
\* the 23-24 groups kept are fewer cells than the 22-24 groups kept
C10_Witness ==
  /\ Finished
  /\ Ones(scratch["tmp3_avd02"]) # Ones(scratch["tmp2_avd02"])
  /\ Ones(scratch["tmp2_avd02"]) # Ones(scratch["tmp1_avd02"])
  /\ Data(scratch["tmp2_urb04"]) # {}
  /\ Data(scratch["tmp2_urb04"]) # Data(scratch["tmp1_urb04"])

\* the region loop under the scheduling of a sequential script: a statement
\* that can run does run
FairSpec == Spec /\ WF_vars(Next)

Reported(rs) == [k \in 1..Len(rs) |-> <<rs[k], " failed.">>]

C5_Isolation ==
  /\ idx <= Len(regions)
  /\ attempts = SubSeq(regions, 1, idx)
  /\ pc = "done" => attempts = regions
  /\ printed = Reported(raised)
  /\ \A k \in 1..Len(raised) : \E m \in 1..idx : raised[k] = regions[m]

\* C5: whatever statement of whatever region raises, the try block of every
\* region of the list is entered exactly once and in list order, every
\* region that raised is reported by its identifier, and the loop ends.
C5_RegionsIsolated == [] C5_Isolation /\ <>(pc = "done")

\* the loop has ended with the first region failed and the second one saved
C5_Witness ==
  /\ pc = "done"
  /\ Len(regions) >= 2
  /\ raised = <<regions[1]>>
  /\ printed = << <<regions[1], " failed.">> >>
  /\ regions[2] \in DOMAIN avoid_mask

HasRaised(r) == \E k \in 1..Len(raised) : raised[k] = r

C6_NoOutputAfterFailure ==
  /\ \A k \in 1..Len(raised) : raised[k] \notin DOMAIN avoid_mask
  /\ idx >= 1 /\ HasRaised(region) => pc \in {"for", "done"}
  /\ pc \in StageNames => DOMAIN scratch = {Stages[k] : k \in 1..(StageIndex(pc) - 1)}
  /\ pc = "avdMask" => DOMAIN scratch = StageNames

C6_Step ==
  /\ raised' # raised => scratch' = scratch /\ avoid_mask' = avoid_mask /\ pc' = "for"
  /\ avoid_mask' # avoid_mask =>
       /\ pc = "avdMask"
       /\ DOMAIN scratch = StageNames
       /\ ~HasRaised(region)
       /\ DOMAIN avoid_mask' = DOMAIN avoid_mask \cup {region}
       /\ \A r \in DOMAIN avoid_mask : r # region => avoid_mask'[r] = avoid_mask[r]

\* C6: once a statement of a region's try block raises, no later statement
\* of that region runs and its avoid_mask is neither written nor modified;
\* the mask is written only after every temporary of the region was saved.
C6_FailureAborts == [] C6_NoOutputAfterFailure /\ [][C6_Step]_vars

\* the second region failed after saving temporaries; the first has its mask
C6_Witness ==
  /\ pc = "for"
  /\ idx = 2
  /\ HasRaised(region)
  /\ "tmp3_avd01" \in DOMAIN scratch
  /\ DOMAIN avoid_mask = {regions[1]}

Radii == {0, 30, 43, 60, 85, 90, 120, 150}

Buffers(src) == [r \in Radii |-> Ones(Stored(bufferWithin(src, r)))]

MonotonicInRadius(src) ==
  LET buf == Buffers(src)
  IN  IF buf = [r \in Radii |-> {}] THEN TRUE
      ELSE \A r1 \in Radii, r2 \in Radii : r1 <= r2 => buf[r1] \subseteq buf[r2]

\* C7: for either seed raster and radii r1 <= r2, the buffer at r1 lies in
\* the buffer at r2; the saved 120 m buffer is bufferWithin at 120 and holds
\* the 90 m buffer of the same seeds, the saved 90 m buffer is bufferWithin at
\* 90 and lies in the 120 m buffer of the same seeds.
C7_BufferMonotonic ==
  /\ Saved("tmp1_urb06") =>
       /\ MonotonicInRadius(scratch["tmp1_urb04"])
       /\ scratch["tmp1_urb06"] = bufferWithin(scratch["tmp1_urb04"], 120)
       /\ Ones(bufferWithin(scratch["tmp1_urb04"], 90)) \subseteq Ones(scratch["tmp1_urb06"])
  /\ Saved("tmp2_urb06") =>
       /\ MonotonicInRadius(scratch["tmp2_urb04"])
       /\ scratch["tmp2_urb06"] = bufferWithin(scratch["tmp2_urb04"], 90)
       /\ Ones(scratch["tmp2_urb06"]) \subseteq Ones(bufferWithin(scratch["tmp2_urb04"], 120))

\* seeds whose 90 m buffer is smaller than their 120 m buffer, which is not
\* the whole frame
C7_Witness ==
  /\ Saved("tmp1_urb06")
  /\ Ones(scratch["tmp1_urb06"]) # Cells
  /\ Ones(bufferWithin(scratch["tmp1_urb04"], 90)) # Ones(scratch["tmp1_urb06"])
  /\ Ones(bufferWithin(scratch["tmp1_urb04"], 90)) # {}

(***************************************************************************)
(* Properties of stage 1.                                                  *)
(***************************************************************************)
HucSet == {hucIDs[k] : k \in 1..Len(hucIDs)}

\* the HUCs whose rounded raster has been saved by the second loop
Rounded == IF at \in {"for_round", "cellstatistics", "done"} THEN {hucIDs[k] : k \in 1..hidx} ELSE {}

\* n is v (a number of Scale-ths) rounded half up: n - 1/2 <= v / Scale < n + 1/2
RoundsHalfUp(v, n) == 2 * Scale * n - Scale <= 2 * v /\ 2 * v < 2 * Scale * n + Scale

\* C9: the rounded raster of a HUC holds, at every cell with a (non-negative)
\* density v, v rounded half up (so 24.5 gives 25 and 24.4 gives 24), and 0 at
\* every NoData cell: no NoData and no negative value is left.
C9_RoundHalfUpZeroFill ==
  \A h \in Rounded :
    (at # "crashed" /\ <<"null_", h>> \in DOMAIN intDens) =>
      \A c \in Cells :
        LET v == Dens[h][c]
            n == intDens[<<"null_", h>>][c]
        IN  /\ n # NoData
            /\ n >= 0
            /\ v = NoData => n = 0
            /\ v # NoData => RoundsHalfUp(v, n)

\* a rounded raster with a 24.5 cell rounded to 25, a cell just below 24.5
\* rounded to 24 and a NoData cell filled with 0
C9_Witness ==
  \E h \in Rounded :
    /\ at = "for_round"
    /\ \E c \in Cells : Dens[h][c] = 24 * Scale + Half /\ intDens[<<"null_", h>>][c] = 25
    /\ \E c \in Cells : Dens[h][c] = 24 * Scale + Half - 1 /\ intDens[<<"null_", h>>][c] = 24
    /\ \E c \in Cells : Dens[h][c] = NoData /\ intDens[<<"null_", h>>][c] = 0

Orders(n) == {f \in [1..n -> 1..n] : {f[k] : k \in 1..n} = 1..n}

\* C8: the regional raster is the cell-wise maximum of the listed rounded
\* rasters whatever the order in which ListDatasets names them and however
\* they are grouped, and with a single listed raster it is that HUC's
\* density rounded and zero filled.
C8_MosaicOrderFree ==
  at = "done" =>
    LET n == Len(nulls)
        g == [k \in 1..n |-> intDens[nulls[k]]]
        out == mosaic["ne_rddens"]
    IN  /\ \A c \in Cells :
             /\ \E k \in 1..n : out[c] = g[k][c]
             /\ \A k \in 1..n : g[k][c] = NoData \/ out[c] >= g[k][c]
        /\ \A f \in Orders(n) : CellStatistics([k \in 1..n |-> g[f[k]]]) = out
        /\ \A k \in 1..(n - 1) :
             CellMax(CellStatistics(SubSeq(g, 1, k)), CellStatistics(SubSeq(g, k + 1, n))) = out
        /\ \A h \in HucSet : nulls = << <<"null_", h>> >> => out = null(Dens[h])

\* a mosaic of three rasters none of which is the maximum everywhere
C8_Witness ==
  /\ at = "done"
  /\ Len(nulls) = 3
  /\ \A k \in 1..Len(nulls) : intDens[nulls[k]] # mosaic["ne_rddens"]
  /\ nulls[1] = <<"null_", hucIDs[2]>>

\* a mosaic of the single rounded raster of the only HUC
C8_WitnessSingle ==
  /\ at = "done"
  /\ Len(hucIDs) = 1
  /\ nulls = << <<"null_", hucIDs[1]>> >>

\* the HUCs the first loop has reported as failed
FailedHucs == {report[k][1] : k \in 1..Len(report)}

\* the names ListDatasets put in nulls
Listed == {nulls[k] : k \in 1..Len(nulls)}

\* C11: once the first loop has reported a HUC as failed, the script does not
\* stop before the regional raster: the round-and-zero-fill loop raises for
\* no HUC, and when the script ends ne_rddens has been written from exactly
\* the rounded rasters null_<huc> of the HUCs in hucIDs.
C11_FailedHucStillMosaicked ==
  FailedHucs # {} =>
    /\ at # "crashed"
    /\ at = "done" =>
         /\ "ne_rddens" \in DOMAIN mosaic
         /\ Listed = {<<"null_", h>> : h \in HucSet}

\* a HUC was reported as failed, left no dens_<huc>, and the second loop
\* raised on it
C11_CrashAfterFailure ==
  /\ at = "crashed"
  /\ hidx >= 1
  /\ huc \in FailedHucs
  /\ huc \notin DOMAIN Dens

====
